---- MODULE Spec2Model ----
(***************************************************************************)
(* Lifecycle model of the AgroFlow sensor firmware (src/main.cpp):         *)
(* boot -> provisioning portal | station join -> operating loop, with the  *)
(* Preferences store that survives ESP.restart().                          *)
(***************************************************************************)
EXTENDS Integers, Sequences, FiniteSets, TLC

VARIABLES
    nvs,        \* Preferences namespace "sensor-config": key -> <<>> (absent) or <<value>>
    started,    \* Preferences::_started, set by preferences.begin()
    pc,         \* position of the single control thread
    op,         \* last operation the firmware performed (history)
    pin,        \* level of RESET_PIN_1
    wifi,       \* WiFi.status() == WL_CONNECTED
    staSsid,    \* ssid handed to WiFi.begin()
    staPass,    \* password handed to WiFi.begin()
    retries,    \* setup()'s local counter of the join loop
    mqttState,  \* PubSubClient::_state: 0 connected, -1 disconnected, -2 connect failed,
                \* -3 connection lost, -4 connection timeout
    subscribed, \* commandTopic subscribed on the current broker session
    rx,         \* message handed to mqttCallback by the last mqtt.loop(): <<>> or <<payload>>
    clock,      \* wall clock (abstract seconds); 0 = never set
    ms,         \* millis(), as the 32-bit pattern read into a signed long
    lastMsg,    \* long lastMsg
    published,  \* timestamps of the payloads the broker accepted (history)
    mac,        \* WiFi.macAddress(): the six bytes of the station address
    uniqueId,   \* String uniqueId, as character codes
    apName,     \* name handed to WiFi.softAP(), as character codes
    commandTopic, \* char commandTopic[100], up to its NUL
    scan,       \* networks the last WiFi.scanNetworks() found (history)
    httpBody,   \* body of the last /scan response, as JSON tokens
    elapsed,    \* milliseconds passed since the last telemetry cycle ran (history)
    run         \* milliseconds the clock was advanced in this boot (history)

\* the variables only setup(), the portal and the timer touch
sideVars == <<mac, uniqueId, apName, commandTopic, scan, httpBody, elapsed, run>>

vars == <<nvs, started, pc, op, pin, wifi, staSsid, staPass, retries,
          mqttState, subscribed, rx, clock, ms, lastMsg, published, sideVars>>

-----------------------------------------------------------------------------
(* Bounds of the model *)
MaxTicks == 5         \* clock ticks modelled per boot
MaxClock == 1         \* wall-clock values the time source can deliver
MaxPad   == 2         \* whitespace characters put around a command word
MaxScan  == 2         \* networks one scan can find

(* Program constants *)
MaxRetries   == 40    \* if (retries > 40)
MsgInterval  == 5000  \* if (now - lastMsg > 5000)
TickStep     == 2501  \* granularity at which the model lets millis() advance

Keys == {"ssid", "password"}

SsidArgs == {"", "Home"}       \* server.arg("ssid"); "" also when the field is missing
PassArgs == {"", "secret"}     \* server.arg("password")

\* PubSubClient::connect() leaves MQTT_CONNECTED, MQTT_CONNECT_FAILED or
\* MQTT_CONNECTION_TIMEOUT
ConnectResults == {0, -2, -4}

OperatingPcs == {"loop", "reconnect", "mqttloop", "tele"}
InOperating  == pc \in OperatingPcs

\* PubSubClient::connected()
MqttConnected == mqttState = 0

-----------------------------------------------------------------------------
(* Arduino String helpers, on sequences of character codes *)

Min(S) == CHOOSE x \in S : \A y \in S : x <= y
Max(S) == CHOOSE x \in S : \A y \in S : x >= y

IsSpace(c) == c \in {9, 10, 11, 12, 13, 32}
ToLower(c) == IF c \in 65..90 THEN c + 32 ELSE c

\* String message = (char*)payload : the bytes up to the first NUL
CStr(bytes) ==
    LET z == {i \in 1..Len(bytes) : bytes[i] = 0}
    IN  IF z = {} THEN bytes ELSE SubSeq(bytes, 1, Min(z) - 1)

\* String::trim()
Trim(s) ==
    LET keep == {i \in 1..Len(s) : ~IsSpace(s[i])}
    IN  IF keep = {} THEN <<>> ELSE SubSeq(s, Min(keep), Max(keep))

\* String::equalsIgnoreCase()
EqualsIgnoreCase(a, b) ==
    /\ Len(a) = Len(b)
    /\ \A i \in 1..Len(a) : ToLower(a[i]) = ToLower(b[i])

RESET == <<82, 69, 83, 69, 84>>

\* Command payloads the broker may deliver
Words == { RESET,
           <<114, 101, 115, 101, 116>>,          \* reset
           <<82, 101, 115, 101, 116>>,           \* Reset
           <<114, 69, 115, 69, 116>>,            \* rEsEt
           <<114, 101, 115, 101, 116, 120>>,     \* resetx
           <<115, 116, 111, 112>>,               \* stop
           <<82, 69, 83, 69>>,                   \* RESE
           <<82, 69, 32, 83, 69, 84>>,           \* "RE SET"
           <<>> }
\* runs of whitespace: space, newline, space, ...
Pads ==
    { [i \in 1..n |-> IF i % 2 = 1 THEN 32 ELSE 10] : n \in 0..MaxPad }
Tails == { <<>>, <<0>>, <<0, 88>> }
Payloads == { (l \o w) \o (r \o t) : l \in Pads, w \in Words, r \in Pads, t \in Tails }

-----------------------------------------------------------------------------
(* 32-bit arithmetic on two's-complement patterns *)
MaxLong == 2147483647
MinLong == (-2147483647) - 1

\* a + d modulo 2^32, for 0 <= d <= MaxLong
Add32(a, d) ==
    IF a > MaxLong - d THEN MinLong + ((d - (MaxLong - a)) - 1) ELSE a + d

\* a - b that stops at the ends of the range instead of wrapping
Sub32_NoWrap(a, b) ==
    IF b >= 0
    THEN IF a < MinLong + b THEN MinLong ELSE a - b
    ELSE IF a > MaxLong + b THEN MaxLong ELSE a - b

\* a - b modulo 2^32
Sub32(a, b) ==
    IF b >= 0
    THEN IF a < MinLong + b THEN MaxLong - ((MinLong + b) - a) + 1 ELSE a - b
    ELSE IF a > MaxLong + b THEN MinLong + ((a - (MaxLong + b)) - 1) ELSE a - b

-----------------------------------------------------------------------------
(* device identity *)

\* station addresses; bytes below 16 print as one hexadecimal digit
HomeMacs == { <<36, 10, 196, 1, 17, 171>> }
MacTails == {1, 17, 171}
Macs     == { <<36, 10, 196, a, b, c>> : a \in MacTails, b \in MacTails, c \in {0, 255} }

\* one digit of utoa(): lower-case
HexChar(d) == IF d < 10 THEN 48 + d ELSE 87 + d

\* String(value, HEX): utoa(value, buf, 16), no leading zeros
RECURSIVE StringHex(_)
StringHex(v) ==
    IF v < 16 THEN <<HexChar(v)>> ELSE Append(StringHex(v \div 16), HexChar(v % 16))

ToUpper(c) == IF c \in 97..122 THEN c - 32 ELSE c

\* String::toUpperCase()
ToUpperCase(s) == [i \in 1..Len(s) |-> ToUpper(s[i])]

\* the loop of setup() without the "0" put before a byte below 16
RECURSIVE UniqueIdLoop_NoPad(_, _, _)
UniqueIdLoop_NoPad(m, i, id) ==
    IF i > 6 THEN id ELSE UniqueIdLoop_NoPad(m, i + 1, id \o StringHex(m[i]))

\* the loop of setup() over mac[0..5], then uniqueId.toUpperCase()
RECURSIVE UniqueIdLoop(_, _, _)
UniqueIdLoop(m, i, id) ==
    IF i > 6 THEN id
    ELSE UniqueIdLoop(m, i + 1, (IF m[i] < 16 THEN Append(id, 48) ELSE id) \o StringHex(m[i]))

UniqueId(m) == ToUpperCase(UniqueIdLoop(m, 1, <<>>))

\* "AgroFlowSensor-"
ApPrefix == <<65, 103, 114, 111, 70, 108, 111, 119, 83, 101, 110, 115, 111, 114, 45>>

\* startConfigurationPortal(): the name of the access point; mac[3..5] are m[4..6]
StartConfigurationPortal(m) ==
    ToUpperCase(((ApPrefix \o StringHex(m[4])) \o StringHex(m[5])) \o StringHex(m[6]))

\* "sensors/" and "/command"
TopicHead == <<115, 101, 110, 115, 111, 114, 115, 47>>
TopicTail == <<47, 99, 111, 109, 109, 97, 110, 100>>

\* snprintf(commandTopic, sizeof(commandTopic), "sensors/%s/command", id): at most
\* sizeof - 1 characters are kept
TopicSize == 100
CommandTopic(id) ==
    LET full == (TopicHead \o id) \o TopicTail
    IN  SubSeq(full, 1, IF Len(full) < TopicSize THEN Len(full) ELSE TopicSize - 1)

-----------------------------------------------------------------------------
(* Preferences *)

NvsEmpty == \A k \in Keys : nvs[k] = <<>>

\* Preferences::getString(key, def): def when the namespace is not open or the key is absent
GetString(isOpen, key, def) ==
    IF (~isOpen) \/ nvs[key] = <<>> THEN def ELSE nvs[key][1]

\* Preferences::clear(): erases the namespace; does nothing when it is not open
PreferencesClear == IF started THEN [k \in Keys |-> <<>>] ELSE nvs

\* Preferences::putString() twice; does nothing when the namespace is not open
PutCredentials(s, p) ==
    IF started THEN [nvs EXCEPT !["ssid"] = <<s>>, !["password"] = <<p>>] ELSE nvs

-----------------------------------------------------------------------------
\* the device at power-on, whatever its address
PowerOn ==
    /\ nvs = [k \in Keys |-> <<>>]
    /\ started = FALSE
    /\ pc = "boot"
    /\ op = "power_on"
    /\ pin \in {"HIGH", "LOW"}
    /\ wifi = FALSE
    /\ staSsid = ""
    /\ staPass = ""
    /\ retries = 0
    /\ mqttState = -1
    /\ subscribed = FALSE
    /\ rx = <<>>
    /\ clock = 0
    /\ ms = 0
    /\ lastMsg = 0
    /\ published = {}
    /\ uniqueId = <<>>
    /\ apName = <<>>
    /\ commandTopic = <<>>
    /\ scan = <<>>
    /\ httpBody = <<>>
    /\ elapsed = 0
    /\ run = 0

Init == PowerOn /\ mac \in HomeMacs

\* ESP.restart(): RAM and peripherals are reinitialised; flash, the RTC clock and the
\* pin are not.
EspRestart(why) ==
    /\ pc' = "boot"
    /\ op' = why
    /\ started' = FALSE
    /\ wifi' = FALSE
    /\ staSsid' = ""
    /\ staPass' = ""
    /\ retries' = 0
    /\ mqttState' = -1
    /\ subscribed' = FALSE
    /\ ms' = 0
    /\ lastMsg' = 0
    /\ uniqueId' = <<>>
    /\ apName' = <<>>
    /\ commandTopic' = <<>>
    /\ scan' = <<>>
    /\ httpBody' = <<>>
    /\ elapsed' = 0
    /\ run' = 0
    /\ UNCHANGED <<pin, clock, published, mac>>

\* clearConfigAndRestart() that restarts without erasing the namespace
ClearConfigAndRestart_KeepStore(why) ==
    /\ nvs' = nvs
    /\ EspRestart(why)

ClearConfigAndRestart(why) ==
    /\ nvs' = PreferencesClear
    /\ EspRestart(why)

-----------------------------------------------------------------------------
(* setup() *)

\* setup() from preferences.begin() on; isOpen is the result of begin(), which the
\* code does not look at
SetupFromStore(isOpen) ==
    LET ssid == GetString(isOpen, "ssid", "")
    IN  /\ started' = isOpen
        /\ rx' = <<>>
        /\ uniqueId' = UniqueId(mac)
        /\ IF ssid = ""
           THEN /\ pc' = "portal"
                /\ op' = "portal_start"
                /\ apName' = StartConfigurationPortal(mac)
                /\ UNCHANGED <<staSsid, staPass, commandTopic>>
           ELSE /\ pc' = "connecting"
                /\ op' = "join_begin"
                /\ staSsid' = ssid
                /\ staPass' = GetString(isOpen, "password", "")
                /\ commandTopic' = CommandTopic(uniqueId')
                /\ UNCHANGED apName
        /\ retries' = 0
        /\ UNCHANGED <<nvs, pin, wifi, mqttState, subscribed, clock, ms, lastMsg, published,
                       mac, scan, httpBody, elapsed, run>>

Boot ==
    /\ pc = "boot"
    /\ IF pin = "LOW"
       THEN ClearConfigAndRestart("boot_pin_reset") /\ rx' = <<>>
       ELSE \E isOpen \in BOOLEAN : SetupFromStore(isOpen)

\* one pass of the join loop of setup()
JoinPoll ==
    /\ pc = "connecting"
    /\ IF wifi
       THEN /\ pc' = "loop"
            /\ op' = "join_ok"
            /\ retries' = 0
            /\ UNCHANGED <<nvs, started, pin, wifi, staSsid, staPass, mqttState,
                           subscribed, rx, clock, ms, lastMsg, published, sideVars>>
       ELSE IF retries + 1 > MaxRetries
            THEN ClearConfigAndRestart("join_giveup") /\ rx' = <<>>
            ELSE /\ retries' = retries + 1
                 /\ op' = "join_wait"
                 /\ UNCHANGED <<nvs, started, pc, pin, wifi, staSsid, staPass, mqttState,
                                subscribed, rx, clock, ms, lastMsg, published, sideVars>>

-----------------------------------------------------------------------------
(* the portal: one request served by server.handleClient() *)

HandleRoot ==
    /\ pc = "portal"
    /\ op' = "http_root"
    /\ UNCHANGED <<nvs, started, pc, pin, wifi, staSsid, staPass, retries, mqttState,
                   subscribed, rx, clock, ms, lastMsg, published, sideVars>>

\* what WiFi.SSID(i) and WiFi.RSSI(i) return; a hidden network has an empty name
Networks ==
    { [ssid |-> "", rssi |-> -80], [ssid |-> "Home", rssi |-> -40],
      [ssid |-> "Cafe", rssi |-> -70] }
ScanResults == UNION { [1..n -> Networks] : n \in 0..MaxScan }

\* the tokens of the scan response
Open  == <<"[">>
Comma == <<",">>
Close == <<"]">>
Object(net) == <<"{ssid,rssi}", net.ssid, net.rssi>>

\* the for loop of handleScan(); i counts from 1 here, from 0 in the code
RECURSIVE ScanLoop(_, _, _)
ScanLoop(found, i, json) ==
    IF i > Len(found) THEN json
    ELSE IF found[i].ssid = ""
         THEN ScanLoop(found, i + 1, json)
         ELSE ScanLoop(found, i + 1,
                       Append(IF i - 1 > 0 THEN Append(json, Comma) ELSE json,
                              Object(found[i])))

ScanJson(found) == Append(ScanLoop(found, 1, <<Open>>), Close)

HandleScan(found) ==
    /\ pc = "portal"
    /\ scan' = found
    /\ httpBody' = ScanJson(found)
    /\ op' = "http_scan"
    /\ UNCHANGED <<nvs, started, pc, pin, wifi, staSsid, staPass, retries, mqttState,
                   subscribed, rx, clock, ms, lastMsg, published,
                   mac, uniqueId, apName, commandTopic, elapsed, run>>

\* handleSave() that goes on into the join instead of restarting
HandleSave_Live(s, p) ==
    /\ pc = "portal"
    /\ nvs' = PutCredentials(s, p)
    /\ pc' = "connecting"
    /\ op' = "http_save"
    /\ staSsid' = s
    /\ staPass' = p
    /\ UNCHANGED <<started, pin, wifi, retries, mqttState, subscribed, rx, clock,
                   ms, lastMsg, published, sideVars>>

HandleSave(s, p) ==
    /\ pc = "portal"
    /\ nvs' = PutCredentials(s, p)
    /\ EspRestart("http_save")
    /\ rx' = <<>>

-----------------------------------------------------------------------------
(* loop() *)

\* the top of loop() without the WiFi check
LoopTop_NoWifiCheck ==
    /\ pc = "loop"
    /\ IF pin = "LOW"
       THEN ClearConfigAndRestart("pin_reset") /\ rx' = <<>>
       ELSE /\ pc' = IF MqttConnected THEN "mqttloop" ELSE "reconnect"
            /\ op' = "loop_top"
            /\ UNCHANGED <<nvs, started, pin, wifi, staSsid, staPass, retries,
                           mqttState, subscribed, rx, clock, ms, lastMsg, published, sideVars>>

\* the reset-pin and WiFi checks at the top of loop()
LoopTop ==
    /\ pc = "loop"
    /\ IF pin = "LOW"
       THEN ClearConfigAndRestart("pin_reset") /\ rx' = <<>>
       ELSE IF ~wifi
            THEN /\ UNCHANGED nvs
                 /\ EspRestart("wifi_restart")
                 /\ rx' = <<>>
            ELSE /\ pc' = IF MqttConnected THEN "mqttloop" ELSE "reconnect"
                 /\ op' = "loop_top"
                 /\ UNCHANGED <<nvs, started, pin, wifi, staSsid, staPass, retries,
                                mqttState, subscribed, rx, clock, ms, lastMsg, published, sideVars>>

\* reconnectMQTT() that does not subscribe after connecting
ReconnectAttempt_NoSubscribe(rc) ==
    /\ pc = "reconnect"
    /\ (rc = 0) => wifi
    /\ mqttState' = rc
    /\ IF rc = 0
       THEN /\ pc' = "mqttloop"
            /\ op' = "mqtt_connected"
            /\ UNCHANGED subscribed
       ELSE /\ op' = "mqtt_retry"
            /\ UNCHANGED <<subscribed, pc>>
    /\ UNCHANGED <<nvs, started, pin, wifi, staSsid, staPass, retries, rx, clock,
                   ms, lastMsg, published, sideVars>>

\* reconnectMQTT() that restarts the device when the broker refuses
ReconnectAttempt_Restart(rc) ==
    /\ pc = "reconnect"
    /\ (rc = 0) => wifi
    /\ IF rc = 0
       THEN /\ mqttState' = rc
            /\ subscribed' = TRUE
            /\ pc' = "mqttloop"
            /\ op' = "mqtt_connected"
            /\ UNCHANGED <<nvs, started, pin, wifi, staSsid, staPass, retries, rx, clock,
                           ms, lastMsg, published, sideVars>>
       ELSE /\ UNCHANGED nvs
            /\ EspRestart("mqtt_retry")
            /\ rx' = <<>>

\* one pass of the while loop of reconnectMQTT(); rc is the state mqtt.connect() leaves:
\* 0 when the broker accepted the connection
ReconnectAttempt(rc) ==
    /\ pc = "reconnect"
    /\ (rc = 0) => wifi
    /\ mqttState' = rc
    /\ IF rc = 0
       THEN /\ subscribed' = TRUE
            /\ pc' = "mqttloop"
            /\ op' = "mqtt_connected"
       ELSE /\ op' = "mqtt_retry"
            /\ UNCHANGED <<subscribed, pc, sideVars>>
    /\ UNCHANGED <<nvs, started, pin, wifi, staSsid, staPass, retries, rx, clock,
                   ms, lastMsg, published, sideVars>>

MqttCallback(payload) ==
    IF Len(payload) > 0
    THEN LET message == Trim(CStr(payload))
         IN  IF EqualsIgnoreCase(message, RESET)
             THEN ClearConfigAndRestart("cmd_reset")
             ELSE /\ pc' = "tele"
                  /\ op' = "cmd_invalid"
                  /\ UNCHANGED <<nvs, started, pin, wifi, staSsid, staPass, retries,
                                 mqttState, subscribed, clock, ms, lastMsg, published, sideVars>>
    ELSE /\ pc' = "tele"
         /\ op' = "cmd_empty"
         /\ UNCHANGED <<nvs, started, pin, wifi, staSsid, staPass, retries,
                        mqttState, subscribed, clock, ms, lastMsg, published, sideVars>>

\* mqtt.loop() with no message waiting, or on a dead connection
MqttLoopIdle ==
    /\ pc = "mqttloop"
    /\ rx' = <<>>
    /\ pc' = "tele"
    /\ op' = "mqtt_idle"
    /\ UNCHANGED <<nvs, started, pin, wifi, staSsid, staPass, retries,
                   mqttState, subscribed, clock, ms, lastMsg, published, sideVars>>

\* mqtt.loop() delivering one message of the command topic
MqttLoopDeliver(payload) ==
    /\ pc = "mqttloop"
    /\ MqttConnected /\ subscribed
    /\ rx' = <<payload>>
    /\ MqttCallback(payload)

\* getUnixTimestampMillis(): getLocalTime() fails until the clock has been set
GetUnixTimestampMillis == IF clock = 0 THEN 0 ELSE clock * 1000

\* publishSensorData() without the timestamp == 0 return
PublishSensorData_NoClockCheck ==
    IF MqttConnected THEN published \cup {GetUnixTimestampMillis} ELSE published

\* publishSensorData(): the set of accepted payloads afterwards
PublishSensorData ==
    LET timestamp == GetUnixTimestampMillis
    IN  IF timestamp = 0
        THEN published
        ELSE IF MqttConnected THEN published \cup {timestamp} ELSE published

TeleOutcome ==
    IF GetUnixTimestampMillis = 0 THEN "tele_skip"
    ELSE IF MqttConnected THEN "tele_pub" ELSE "tele_drop"

\* the timer check re-armed only by a cycle that published
Telemetry_RetryFailed ==
    /\ pc = "tele"
    /\ LET now == ms
       IN  IF Sub32(now, lastMsg) > MsgInterval
           THEN /\ lastMsg' = IF TeleOutcome = "tele_pub" THEN now ELSE lastMsg
                /\ published' = PublishSensorData
                /\ op' = TeleOutcome
                /\ elapsed' = 0
           ELSE /\ op' = "tele_wait"
                /\ UNCHANGED <<lastMsg, published, elapsed>>
    /\ pc' = "loop"
    /\ rx' = <<>>
    /\ UNCHANGED <<nvs, started, pin, wifi, staSsid, staPass, retries,
                   mqttState, subscribed, clock, ms,
                   mac, uniqueId, apName, commandTopic, scan, httpBody, run>>

\* the timer check at the end of loop()
Telemetry ==
    /\ pc = "tele"
    /\ LET now == ms
       IN  IF Sub32(now, lastMsg) > MsgInterval
           THEN /\ lastMsg' = now
                /\ published' = PublishSensorData
                /\ op' = TeleOutcome
                /\ elapsed' = 0
           ELSE /\ op' = "tele_wait"
                /\ UNCHANGED <<lastMsg, published, elapsed>>
    /\ pc' = "loop"
    /\ rx' = <<>>
    /\ UNCHANGED <<nvs, started, pin, wifi, staSsid, staPass, retries,
                   mqttState, subscribed, clock, ms,
                   mac, uniqueId, apName, commandTopic, scan, httpBody, run>>

-----------------------------------------------------------------------------
(* environment *)

PinChange ==
    /\ pin' = IF pin = "HIGH" THEN "LOW" ELSE "HIGH"
    /\ UNCHANGED <<nvs, started, pc, op, wifi, staSsid, staPass, retries, mqttState,
                   subscribed, rx, clock, ms, lastMsg, published, sideVars>>

\* the access point accepts or drops the station
WifiChange ==
    /\ pc \in OperatingPcs \cup {"connecting"}
    /\ wifi' = ~wifi
    /\ UNCHANGED <<nvs, started, pc, op, pin, staSsid, staPass, retries, mqttState,
                   subscribed, rx, clock, ms, lastMsg, published, sideVars>>

BrokerDrop ==
    /\ MqttConnected
    /\ mqttState' = -3
    /\ subscribed' = FALSE
    /\ UNCHANGED <<nvs, started, pc, op, pin, wifi, staSsid, staPass, retries,
                   rx, clock, ms, lastMsg, published, sideVars>>

\* SNTP, started by configTime() after the join, sets the clock
NtpSync(c) ==
    /\ InOperating /\ wifi
    /\ clock = 0
    /\ clock' = c
    /\ UNCHANGED <<nvs, started, pc, op, pin, wifi, staSsid, staPass, retries,
                   mqttState, subscribed, rx, ms, lastMsg, published, sideVars>>

Tick ==
    /\ InOperating
    /\ run + TickStep <= MaxTicks * TickStep
    /\ ms' = Add32(ms, TickStep)
    /\ elapsed' = elapsed + TickStep
    /\ run' = run + TickStep
    /\ UNCHANGED <<nvs, started, pc, op, pin, wifi, staSsid, staPass, retries,
                   mqttState, subscribed, rx, clock, lastMsg, published,
                   mac, uniqueId, apName, commandTopic, scan, httpBody>>

-----------------------------------------------------------------------------
Device ==
    \/ Boot
    \/ JoinPoll
    \/ HandleRoot
    \/ \E found \in ScanResults : HandleScan(found)
    \/ \E s \in SsidArgs, p \in PassArgs : HandleSave(s, p)
    \/ LoopTop
    \/ \E rc \in ConnectResults : ReconnectAttempt(rc)
    \/ MqttLoopIdle
    \/ \E payload \in Payloads : MqttLoopDeliver(payload)
    \/ Telemetry

Environment ==
    \/ PinChange
    \/ WifiChange
    \/ BrokerDrop
    \/ \E c \in 1..MaxClock : NtpSync(c)
    \/ Tick

Next == Device \/ Environment

Spec == Init /\ [][Next]_vars

\* provisioning alone, for every address: a device no network ever accepts
InitId == PowerOn /\ mac \in Macs

NextId ==
    \/ Boot
    \/ JoinPoll
    \/ HandleRoot
    \/ \E found \in ScanResults : HandleScan(found)
    \/ \E s \in SsidArgs, p \in PassArgs : HandleSave(s, p)
    \/ PinChange

SpecId == InitId /\ [][NextId]_vars

\* millis() at the last value, and one tick before it, before the signed value turns
\* negative (24.8 days of uptime) and before the counter wraps to 0 (49.7 days)
WrapStarts == { MaxLong - TickStep, MaxLong, (-1) - TickStep, -1 }

\* a device that has been operating for that long: joined, connected, subscribed, the
\* last telemetry cycle just run, with or without a time source that ever answered
InitWrap ==
    /\ nvs = [ssid |-> <<"Home">>, password |-> <<"secret">>]
    /\ started = TRUE
    /\ pc = "loop"
    /\ pin = "HIGH"
    /\ wifi = TRUE
    /\ staSsid = "Home"
    /\ staPass = "secret"
    /\ retries = 0
    /\ mqttState = 0
    /\ subscribed = TRUE
    /\ rx = <<>>
    /\ clock \in 0..MaxClock
    /\ op = IF clock = 0 THEN "tele_skip" ELSE "tele_pub"
    /\ ms \in WrapStarts
    /\ lastMsg = ms
    /\ published = IF clock = 0 THEN {} ELSE {clock * 1000}
    /\ mac \in HomeMacs
    /\ uniqueId = UniqueId(mac)
    /\ apName = <<>>
    /\ commandTopic = CommandTopic(uniqueId)
    /\ scan = <<>>
    /\ httpBody = <<>>
    /\ elapsed = 0
    /\ run = 0

SpecWrap == InitWrap /\ [][Next]_vars

\* the control thread always runs; the environment owes nothing
SpecFair == Spec /\ WF_vars(Device)

TypeOK ==
    /\ nvs \in [Keys -> {<<>>} \cup {<<s>> : s \in SsidArgs \cup PassArgs}]
    /\ started \in BOOLEAN
    /\ pc \in {"boot", "portal", "connecting"} \cup OperatingPcs
    /\ pin \in {"HIGH", "LOW"}
    /\ wifi \in BOOLEAN
    /\ retries \in 0..MaxRetries
    /\ mqttState \in {-1, -3} \cup ConnectResults
    /\ subscribed \in BOOLEAN
    /\ clock \in 0..MaxClock

-----------------------------------------------------------------------------
(* Properties *)

\* the values the store holds, "" for an absent key
StoredSsid == IF nvs["ssid"] = <<>> THEN "" ELSE nvs["ssid"][1]
StoredPass == IF nvs["password"] = <<>> THEN "" ELSE nvs["password"][1]

\* a step in which setup() gets past the reset-pin check and picks a mode
BootDecides == pc = "boot" /\ pc' # "boot"

\* the restarts that go through clearConfigAndRestart() once the store has been opened
AfterOpenResets == {"pin_reset", "cmd_reset", "join_giveup"}

\* C1: at a boot with the reset pin not asserted the mode is decided by the stored
\* ssid alone: portal iff it is absent or empty, otherwise the join with the stored
\* ssid and password.
C1_BootDecidedByStoredSsid ==
    [][ (BootDecides /\ pin = "HIGH") =>
           IF StoredSsid = ""
           THEN pc' = "portal"
           ELSE pc' = "connecting" /\ staSsid' = StoredSsid /\ staPass' = StoredPass
      ]_vars

\* C2: every reset taken after the store was opened (pin low at a loop tick, RESET
\* command, join budget exceeded) leaves the store erased at the restart; the store
\* stays erased until a boot picks a mode, and that boot starts the portal.
C2_ResetAfterOpenClearsStore ==
    [][ /\ (pc # "boot" /\ pc' = "boot" /\ op' \in AfterOpenResets) => NvsEmpty'
        /\ (pc = "boot" /\ pc' = "boot") => nvs' = nvs
        /\ (BootDecides /\ NvsEmpty) => pc' = "portal"
      ]_vars

\* C2 witness: a RESET command has restarted the device and the store is empty.
C2_Witness ==
    pc = "boot" /\ op = "cmd_reset" /\ rx # <<>> /\ NvsEmpty

\* C3: after the reset path taken at boot because the pin is low, no credentials are
\* left in the store, so that the boot at which the pin is high again starts the portal.
C3_BootPinResetErases ==
    (pc = "boot" /\ op = "boot_pin_reset") => StoredSsid = ""

\* C4: the join loop gives up in the pass that makes its 40th wait, and a pass that
\* finds the station connected goes on to the operating loop with the store kept.
C4_ExactlyFortyWaits ==
    [][ /\ (pc = "connecting" /\ pc' = "boot") => retries + 1 = MaxRetries
        /\ (pc = "connecting" /\ wifi /\ pc' # "connecting") =>
               (pc' = "loop" /\ nvs' = nvs)
      ]_vars

\* C5: POST /save with a non-empty ssid and any password stores both and restarts,
\* and the next boot with the pin not asserted joins with exactly these.
C5_SaveThenJoin ==
    [][ /\ \A s \in SsidArgs \ {""}, p \in PassArgs :
               HandleSave(s, p) =>
                   /\ pc' = "boot"
                   /\ nvs' = [k \in Keys |-> IF k = "ssid" THEN <<s>> ELSE <<p>>]
        /\ (BootDecides /\ pin = "HIGH" /\ op = "http_save" /\ StoredSsid # "") =>
               (pc' = "connecting" /\ staSsid' = StoredSsid /\ staPass' = StoredPass)
      ]_vars

\* C6: the restart on WiFi loss leaves the store as it is, and the boot that follows
\* joins with the same credentials.
C6_WifiLossKeepsCredentials ==
    [][ /\ (pc = "loop" /\ pc' = "boot" /\ op' = "wifi_restart") =>
               (nvs' = nvs /\ StoredSsid # "")
        /\ (BootDecides /\ op = "wifi_restart") =>
               (pc' = "connecting" /\ staSsid' = StoredSsid /\ staPass' = StoredPass)
      ]_vars

\* the command the claim describes: the whole payload, trimmed, is RESET in any case
IsResetCommand(payload) == EqualsIgnoreCase(Trim(payload), RESET)

\* C7: a delivered payload leads to the factory reset iff it is a RESET command;
\* any other payload leaves the store alone and the device in the operating loop.
C7_ResetIffResetCommand ==
    [][ (pc = "mqttloop" /\ rx' # <<>>) =>
           IF IsResetCommand(rx'[1])
           THEN pc' = "boot" /\ NvsEmpty'
           ELSE pc' \in OperatingPcs /\ nvs' = nvs
      ]_vars

\* the timer of loop() fires in this step
CycleRuns == pc = "tele" /\ pc' = "loop" /\ lastMsg' = ms /\ Sub32(ms, lastMsg) > MsgInterval

\* C8: a telemetry cycle without wall-clock time publishes nothing, changes neither
\* the store nor the mode and does not restart; a cycle with the clock set and the
\* broker connected publishes; no published payload has timestamp 0.
C8_NoClockNoPublish ==
    [][ /\ (CycleRuns /\ clock = 0) =>
               (published' = published /\ nvs' = nvs /\ op' = "tele_skip")
        /\ (CycleRuns /\ clock # 0 /\ MqttConnected) => (clock * 1000) \in published'
        /\ \A t \in published' : t > 0
      ]_vars

\* C8 witness: a cycle has just been skipped for lack of wall-clock time.
C8_Witness ==
    pc = "loop" /\ op = "tele_skip" /\ clock = 0 /\ lastMsg > MsgInterval

\* what the firmware does on the station side: the reset-pin reads, the join and
\* the passes of loop()
StationOps ==
    { "boot_pin_reset", "join_begin", "join_wait", "join_ok", "join_giveup",
      "loop_top", "pin_reset", "wifi_restart", "mqtt_connected", "mqtt_retry",
      "mqtt_idle", "cmd_reset", "cmd_invalid", "cmd_empty",
      "tele_wait", "tele_skip", "tele_pub", "tele_drop" }

\* C9: while the portal runs nothing of the station side happens, and the portal is
\* left only by the restart of POST /save.
C9_PortalExcludesOperating ==
    [][ pc = "portal" =>
           /\ \/ pc' = "portal" /\ nvs' = nvs
              \/ pc' = "boot" /\ op' = "http_save"
           /\ op' \notin StationOps
           /\ published' = published
           /\ ~wifi' /\ staSsid' = "" /\ ~MqttConnected'
           /\ lastMsg' = lastMsg /\ retries' = retries
      ]_vars

\* C9 witness: the portal has been left by the restart of POST /save.
C9_Witness ==
    pc = "boot" /\ op = "http_save" /\ StoredSsid = "Home"

\* C10: in the operating loop, a reset pin that is low leads to the factory reset
\* unless it is released.
C10_PinLowLeadsToReset ==
    (InOperating /\ pin = "LOW") ~> (pin = "HIGH" \/ (pc = "boot" /\ NvsEmpty))
-----------------------------------------------------------------------------
\* the array a JSON parser accepts for a scan: the visible networks in scan order,
\* one comma between neighbours and none elsewhere
RECURSIVE Joined(_)
Joined(objs) ==
    IF Len(objs) = 0 THEN <<>>
    ELSE IF Len(objs) = 1 THEN <<objs[1]>>
    ELSE <<objs[1], Comma>> \o Joined(Tail(objs))

Visible(found) == SelectSeq(found, LAMBDA net : net.ssid # "")
ObjectsOf(found) == [i \in 1..Len(found) |-> Object(found[i])]
WellFormedArray(found) == (<<Open>> \o Joined(ObjectsOf(Visible(found)))) \o <<Close>>

\* C11: after every /scan request the response body is a well-formed JSON array: one
\* object per network with a name, in scan order, separated by exactly one comma, with
\* no leading, trailing or doubled comma.
C11_ScanBodyWellFormed ==
    (pc = "portal" /\ op = "http_scan") => httpBody = WellFormedArray(scan)

\* C12: a boot at which the store could not be opened ends in a fatal state: the device
\* is never in the portal, in the join or in the operating loop with the store not open.
C12_OpenFailureIsFatal ==
    (pc \in {"portal", "connecting"} \cup OperatingPcs) => started

\* C13: in every reachable state of the store either both keys are absent or the ssid
\* is not empty.
C13_CredentialsInvariant ==
    \/ nvs["ssid"] = <<>> /\ nvs["password"] = <<>>
    \/ nvs["ssid"] # <<>> /\ nvs["ssid"][1] # ""

-----------------------------------------------------------------------------
\* "0123456789ABCDEF"
UpperHex == <<48, 49, 50, 51, 52, 53, 54, 55, 56, 57, 65, 66, 67, 68, 69, 70>>

\* a byte as two upper-case hexadecimal digits
TwoHex(b) == <<UpperHex[(b \div 16) + 1], UpperHex[(b % 16) + 1]>>

\* C14: the access point name is the product prefix with its hyphen followed by exactly
\* six upper-case hexadecimal characters, two for each of the last three bytes of the
\* address, so that different last three bytes give different names.
C14_ApNameSixHex ==
    pc = "portal" =>
        /\ Len(apName) = Len(ApPrefix) + 6
        /\ SubSeq(apName, Len(ApPrefix) + 1, Len(apName))
             = (TwoHex(mac[4]) \o TwoHex(mac[5])) \o TwoHex(mac[6])

\* C15: at every boot the device identity is exactly twelve upper-case hexadecimal
\* characters, two per byte of the address in byte order, so every boot of the same
\* address computes the same identity.
C15_IdentityTwelveHex ==
    pc # "boot" =>
        /\ Len(uniqueId) = 12
        /\ \A i \in 1..6 : SubSeq(uniqueId, (2 * i) - 1, 2 * i) = TwoHex(mac[i])

\* a boot that follows a restart, for an address with a zero byte
C15_Witness ==
    /\ pc = "connecting" /\ op = "join_begin"
    /\ mac[6] = 0
    /\ uniqueId # <<>>

-----------------------------------------------------------------------------
\* the timer check of one loop() pass, and the passes in which the cycle ran
TimerStep == pc = "tele" /\ pc' = "loop"
CycleOps  == {"tele_pub", "tele_drop", "tele_skip"}
CycleStep == TimerStep /\ op' \in CycleOps

\* C16: a telemetry cycle runs only when more than 5000 ms have passed since the cycle
\* before it ran, whether that one published or not; it hands the broker at most one
\* payload, the one of its own reading; a cycle that fails or is skipped publishes
\* nothing, and nothing is published outside a cycle.
C16_OneAttemptPerCycle ==
    [][ /\ CycleStep => elapsed > MsgInterval
        /\ CycleStep => published' \subseteq published \cup {GetUnixTimestampMillis}
        /\ (CycleStep /\ op' # "tele_pub") => published' = published
        /\ published' # published => (CycleStep /\ op' = "tele_pub") ]_vars

\* a cycle whose publish failed, after the broker had accepted an earlier payload
C16_Witness ==
    /\ pc = "loop" /\ op = "tele_drop"
    /\ elapsed = 0
    /\ published # {}

-----------------------------------------------------------------------------
\* mqtt.publish() is called: the cycle ran and the clock was set
PublishAttempt == CycleStep /\ op' \in {"tele_pub", "tele_drop"}

\* C17: a publish attempt is made only from the timer check of the operating loop, and
\* a loop pass gets there only through mqtt.loop(), which it reaches only with the WiFi
\* check passed and the broker either found connected or connected by the reconnect
\* loop; nothing is published in the portal, in the join or inside the reconnect loop.
C17_PublishOnlyWhenConnected ==
    [][ /\ (PublishAttempt \/ published' # published) => pc = "tele"
        /\ (pc' = "tele" /\ pc # "tele") => pc = "mqttloop"
        /\ (pc' = "mqttloop" /\ pc # "mqttloop") =>
               \/ pc = "loop" /\ wifi /\ MqttConnected
               \/ pc = "reconnect" /\ mqttState' = 0
        /\ (pc' = "reconnect" /\ pc # "reconnect") => (pc = "loop" /\ wifi) ]_vars

\* a payload accepted by the broker in a pass with WiFi and broker up
C17_Witness ==
    /\ pc = "loop" /\ op = "tele_pub"
    /\ wifi /\ MqttConnected
    /\ published # {}

\* "sensors/<device_id>/command" for the address of the device
OwnCommandTopic ==
    (TopicHead \o (((((TwoHex(mac[1]) \o TwoHex(mac[2])) \o TwoHex(mac[3]))
                      \o TwoHex(mac[4])) \o TwoHex(mac[5])) \o TwoHex(mac[6])))
        \o TopicTail

\* C18: whenever the device is in the operating loop with the broker connected, it has
\* subscribed on that connection, and the topic is sensors/<device_id>/command: no
\* message is processed and no telemetry published on a connection without it.
C18_SubscribedWhileConnected ==
    (InOperating /\ MqttConnected) => (subscribed /\ commandTopic = OwnCommandTopic)

\* the pass right after a reconnection
C18_Witness ==
    /\ pc = "mqttloop" /\ op = "mqtt_connected"
    /\ subscribed
    /\ published # {}

\* C19: a step of the reconnect loop that does not end with the broker connected leaves
\* the device in the reconnect loop of the operating state, not restarted, with the
\* store and the credentials in use unchanged.
C19_BrokerFailureKeepsOperating ==
    [][ (pc = "reconnect" /\ mqttState' # 0) =>
            /\ pc' = "reconnect"
            /\ nvs' = nvs
            /\ started' = started
            /\ staSsid' = staSsid /\ staPass' = staPass ]_vars

\* a refused attempt that follows a refused attempt, credentials still stored
C19_Witness ==
    /\ pc = "reconnect" /\ op = "mqtt_retry"
    /\ mqttState = -4
    /\ StoredSsid = "Home"

-----------------------------------------------------------------------------
\* C20: with now and lastMsg the signed 32-bit patterns of the millisecond counter and
\* their difference taken modulo 2^32, a timer check runs the telemetry cycle exactly
\* when more than 5000 ms have passed since the last cycle ran, also when the counter
\* has passed 2^31 or wrapped to 0 in between: cycles neither stop nor come early.
C20_TimerSurvivesWrap ==
    [][ TimerStep => ((op' \in CycleOps) <=> (elapsed > MsgInterval)) ]_vars

\* a cycle that ran just after the signed value of millis() turned negative
C20_Witness ==
    /\ pc = "loop" /\ op \in CycleOps
    /\ elapsed = 0
    /\ lastMsg < 0 /\ lastMsg < MinLong + (MaxTicks * TickStep)

====
